---- MODULE Spec2Model ----
(***************************************************************************)
(* A model of the Laconic micro framework (zjurelinac/Laconic):            *)
(* laconic/util.py (AttributeScope, Dispatchable, ExceptionHandler, the    *)
(* comparison functions), laconic/region.py (BaseRegion, UrlRegion),       *)
(* laconic/routing.py (UrlRouter), laconic/context.py (BaseContext) and    *)
(* laconic/exceptions.py (the HTTP exception catalog).                     *)
(*                                                                         *)
(* Python objects live in heaps: `scopes` holds the AttributeScope objects *)
(* and `regions` the region objects; an object's identity is its index and *)
(* None is 0.  Every call is one action; what the call returned or raised  *)
(* is recorded in `last`.                                                  *)
(***************************************************************************)
EXTENDS Integers, Sequences, FiniteSets, TLC

VARIABLES
    scopes,     \* heap of AttributeScope objects: [data, parent]
    regions,    \* heap of region objects: [cls, endpoints, regions, region_attrs]
    last,       \* the last call: [op, self, args, err, ret]
    router,     \* the UrlRouter object and the registrations asked of it
    ctx,        \* the BaseContext object: its slots, and where its block is
    http        \* the data dicts and the MethodNotAllowedError objects built

vars == <<scopes, regions, last, router, ctx, http>>

\* ------------------------------------------------------------------ bounds

MaxScopes == 3
MaxBulk == 2
MaxRules == 2
MaxDicts == 3
MaxErrors == 2

\* ------------------------------------------------------------------ values

None == 0

\* A Python value: a list (of items) or an opaque atom.
List(items) == [t |-> "list", items |-> items]
Atom(s) == [t |-> "atom", items |-> <<s>>]
NoVal == [t |-> "none", items |-> <<>>]

\* The outcome of a call that returns a value or raises.
Return(v) == [exc |-> "none", val |-> v]
Raise(e) == [exc |-> e, val |-> NoVal]

\* Keyword arguments / dict literals: functions from a set of keys to values.
Dicts(keys, vals) == UNION {[d -> vals] : d \in SUBSET keys}
EmptyDict == [k \in {} |-> NoVal]

\* ------------------------------------------------- util.py: AttributeScope

\* AttributeScope(_parent, **items)
ScopeNew(parent, items) == [data |-> items, parent |-> parent]

\* scope[key]: local, then the parent chain, then KeyError
RECURSIVE getitem(_, _, _)
RECURSIVE GetItemMissingNone(_, _, _)
GetItemMissingNone(H, s, key) ==
    IF key \in DOMAIN H[s].data THEN Return(H[s].data[key])
    ELSE IF H[s].parent # None THEN GetItemMissingNone(H, H[s].parent, key)
    ELSE Return(NoVal)
GetItemLocalOnly(H, s, key) ==
    IF key \in DOMAIN H[s].data THEN Return(H[s].data[key]) ELSE Raise("KeyError")
getitem(H, s, key) ==
    IF key \in DOMAIN H[s].data THEN Return(H[s].data[key])
    ELSE IF H[s].parent # None THEN getitem(H, H[s].parent, key)
    ELSE Raise("KeyError")

\* The scope whose _data holds the value scope[key] returns (key is bound).
RECURSIVE binder(_, _, _)
binder(H, s, key) ==
    IF key \in DOMAIN H[s].data THEN s ELSE binder(H, H[s].parent, key)

\* key in scope: Mapping.__contains__ tries self[key] and catches KeyError
contains(H, s, key) == getitem(H, s, key).exc = "none"

\* scope.all(key): walk the chain, appending scope[key] wherever key in scope
RECURSIVE all_loop(_, _, _, _)
all_loop(H, scope, key, result) ==
    IF scope = None THEN result
    ELSE all_loop(H, H[scope].parent, key,
                  IF contains(H, scope, key)
                  THEN Append(result, getitem(H, scope, key).val)
                  ELSE result)
AllTopDown(H, s, key) ==
    LET r == all_loop(H, s, key, <<>>) IN [i \in 1..Len(r) |-> r[Len(r) + 1 - i]]
all(H, s, key) == all_loop(H, s, key, <<>>)

\* A dict as Python keeps it: the keys in insertion order, and their values.
EmptyOrdered == [keys |-> <<>>, vals |-> EmptyDict]

\* The keys of a dict, in the order it yields them.
RECURSIVE KeysOf(_)
KeysOf(S) ==
    IF S = {} THEN <<>>
    ELSE LET x == CHOOSE x \in S : TRUE IN <<x>> \o KeysOf(S \ {x})

\* rd.update(d): a key already in rd keeps its place and takes d's value, a
\* new key goes to the end.
dict_update(rd, d) ==
    [keys |-> rd.keys \o SelectSeq(KeysOf(DOMAIN d),
                                   LAMBDA k : k \notin DOMAIN rd.vals),
     vals |-> [k \in DOMAIN rd.vals \cup DOMAIN d |->
                  IF k \in DOMAIN d THEN d[k] ELSE rd.vals[k]]]

\* ds, t = [], self; while t is not None: ds.append(t._data); t = t._parent
RECURSIVE combine_ds(_, _)
combine_ds(H, t) ==
    IF t = None THEN <<>> ELSE <<H[t].data>> \o combine_ds(H, H[t].parent)

\* for d in reversed(ds): rd.update(d)
RECURSIVE update_reversed(_, _)
update_reversed(rd, ds) ==
    IF Len(ds) = 0 THEN rd
    ELSE update_reversed(dict_update(rd, ds[Len(ds)]), SubSeq(ds, 1, Len(ds) - 1))

\* The same loop over ds as it is, the scope's own _data first.
RECURSIVE update_forward(_, _)
update_forward(rd, ds) ==
    IF Len(ds) = 0 THEN rd
    ELSE update_forward(dict_update(rd, Head(ds)), Tail(ds))
CombineOwnFirst(H, s) == update_forward(EmptyOrdered, combine_ds(H, s))

\* AttributeScope._combine(self); __iter__ and __len__ are iter() and len()
\* of its result.
_combine(H, s) == update_reversed(EmptyOrdered, combine_ds(H, s))

\* --------------------------------------- Python object model (attributes)

\* AttributeScope declares __slots__ = ['_data', '_parent'] and its base
\* (collections.abc.Mapping) is slotted too, so an instance has no __dict__:
\* assigning any other attribute raises AttributeError.
AttributeScope_slots == {"_data", "_parent"}

\* scope.<name> = value
scope_setattr(H, s, name, value) ==
    IF name \notin AttributeScope_slots THEN [H |-> H, exc |-> "AttributeError"]
    ELSE IF name = "_parent" THEN [H |-> [H EXCEPT ![s].parent = value], exc |-> "none"]
    ELSE [H |-> [H EXCEPT ![s].data = value], exc |-> "none"]

\* scope[key] = value: AttributeScope is a Mapping and defines no __setitem__
scope_setitem(H, s, key, value) == [H |-> H, exc |-> "TypeError"]

\* ------------------------------- util.py: Dispatchable, ExceptionHandler

\* The objects handed over as callables.  A function object carries what
\* inspect.signature reports: per parameter whether it is annotated.
Function(annotated) == [kind |-> "function", annotated |-> annotated]
ParamDict(params) == [kind |-> "dict", annotated |-> params]
Objects ==
    [f |-> Function(<<TRUE>>),       \* def f(e: T)
     g |-> Function(<<>>),           \* def g()
     u |-> Function(<<FALSE>>),      \* def u(e)
     n |-> [kind |-> "int", annotated |-> <<>>]]   \* not a callable

IsCallable(o) == o.kind = "function"

\* DispatchParam.from_signature(v, type_required=True) for each parameter
DispatchParams(o) ==
    IF \E i \in 1..Len(o.annotated) : ~o.annotated[i]
    THEN Raise("Exception")
    ELSE Return(ParamDict(o.annotated))

\* Dispatchable.from_signature is a classmethod: called through super() from
\* ExceptionHandler.__init__ its cls is ExceptionHandler, so cls(callable,
\* parameters, return_type) runs ExceptionHandler.__init__ again, with the
\* parameters dict in the place of the handler.
RECURSIVE Dispatchable_from_signature(_, _), ExceptionHandler_init(_, _, _)
Dispatchable_from_signature(cls, callable) ==
    IF ~IsCallable(callable) THEN Raise("TypeError")
    ELSE LET parameters == DispatchParams(callable) IN
         IF parameters.exc # "none" THEN Raise(parameters.exc)
         ELSE IF cls = "ExceptionHandler"
              THEN ExceptionHandler_init(callable, parameters.val, NoVal)
              ELSE Return([callable |-> callable, parameters |-> parameters.val])

ExceptionHandler_init(exc_type, exc_handler, config_params) ==
    LET disp == Dispatchable_from_signature("ExceptionHandler", exc_handler) IN
    IF disp.exc # "none" THEN Raise(disp.exc)
    ELSE Return([callable |-> exc_handler, exc_type |-> exc_type,
                 attrs |-> config_params, parameters |-> disp.val.parameters])

\* ------------------------------------------ region.py: BaseRegion, UrlRegion

ReservedKeys == <<"exception_handlers", "before_request", "after_request">>

\* The program state an operation works on, and what it leaves behind.
State(H, R) == [scopes |-> H, regions |-> R]
Done(H, R) == [scopes |-> H, regions |-> R, exc |-> "none"]
Failed(st, e) == [scopes |-> st.scopes, regions |-> st.regions, exc |-> e]

\* An optional argument: None or a sequence.
NoneArg == [given |-> FALSE, seq |-> <<>>]
SeqArg(q) == [given |-> TRUE, seq |-> q]

\* BaseRegion.add_endpoint(endpoint, **endpoint_attrs)
BaseAddEndpointNoParent(st, self, endpoint, attrs) ==
    LET sid == Len(st.scopes) + 1 IN
    Done(Append(st.scopes, ScopeNew(None, attrs)),
         [st.regions EXCEPT ![self].endpoints = Append(@, <<endpoint, sid>>)])
BaseRegion_add_endpoint(st, self, endpoint, attrs) ==
    LET sid == Len(st.scopes) + 1 IN
    Done(Append(st.scopes, ScopeNew(st.regions[self].region_attrs, attrs)),
         [st.regions EXCEPT ![self].endpoints = Append(@, <<endpoint, sid>>)])

\* UrlRegion.add_endpoint(url_rule, endpoint, **endpoint_attrs)
UrlRegion_add_endpoint(st, self, url_rule, endpoint, attrs) ==
    LET sid == Len(st.scopes) + 1 IN
    Done(Append(st.scopes, ScopeNew(st.regions[self].region_attrs, attrs)),
         [st.regions EXCEPT ![self].endpoints = Append(@, <<url_rule, endpoint, sid>>)])

\* for endpoint, *endpoint_attrs in endpoints:
\*     self.add_endpoint(endpoint, **(endpoint_attrs or {}))
\* endpoint_attrs is the list of the tuple's remaining items: an empty list
\* gives {}, a non-empty one is passed to ** as it is, and a list is no mapping.
RECURSIVE BaseRegion_add_endpoints(_, _, _)
BaseRegion_add_endpoints(st, self, endpoints) ==
    IF endpoints = <<>> THEN Done(st.scopes, st.regions)
    ELSE LET t == Head(endpoints)
             endpoint_attrs == SubSeq(t, 2, Len(t))
         IN  IF Len(endpoint_attrs) # 0 THEN Failed(st, "TypeError")
             ELSE BaseRegion_add_endpoints(
                      BaseRegion_add_endpoint(st, self, t[1], EmptyDict),
                      self, Tail(endpoints))

\* for url_rule, endpoint, *endpoint_attrs in endpoints:
\*     self.add_endpoint(url_rule, endpoint, **(endpoint_attrs or {}))
RECURSIVE UrlRegion_add_endpoints(_, _, _)
UrlRegion_add_endpoints(st, self, endpoints) ==
    IF endpoints = <<>> THEN Done(st.scopes, st.regions)
    ELSE LET t == Head(endpoints)
             endpoint_attrs == SubSeq(t, 3, Len(t))
         IN  IF Len(endpoint_attrs) # 0 THEN Failed(st, "TypeError")
             ELSE UrlRegion_add_endpoints(
                      UrlRegion_add_endpoint(st, self, t[1], t[2], EmptyDict),
                      self, Tail(endpoints))

\* BaseRegion.add_region(region):
\*     region.region_attrs.parent = self.region_attrs
\*     self.regions.append(region)
BaseRegion_add_region(st, self, region) ==
    LET set == scope_setattr(st.scopes, st.regions[region].region_attrs, "parent",
                             st.regions[self].region_attrs)
    IN  IF set.exc # "none" THEN Failed(st, set.exc)
        ELSE Done(set.H, [st.regions EXCEPT ![self].regions = Append(@, region)])

\* UrlRegion.add_region(region, url_prefix=None):
\*     region.region_attrs.parent = self.region_attrs
\*     self.regions.append((region, url_prefix))
UrlRegion_add_region(st, self, region, url_prefix) ==
    LET set == scope_setattr(st.scopes, st.regions[region].region_attrs, "parent",
                             st.regions[self].region_attrs)
    IN  IF set.exc # "none" THEN Failed(st, set.exc)
        ELSE Done(set.H, [st.regions EXCEPT
                              ![self].regions = Append(@, <<region, url_prefix>>)])

\* for region in regions: self.add_region(region)
RECURSIVE BaseRegion_add_regions(_, _, _)
BaseRegion_add_regions(st, self, rs) ==
    IF rs = <<>> THEN Done(st.scopes, st.regions)
    ELSE LET r == BaseRegion_add_region(st, self, Head(rs)) IN
         IF r.exc # "none" THEN r
         ELSE BaseRegion_add_regions(r, self, Tail(rs))

\* for region, *url_prefix in regions: self.add_region(region, url_prefix)
\* url_prefix is the list of the tuple's remaining items.
RECURSIVE UrlRegion_add_regions(_, _, _)
UrlRegion_add_regions(st, self, rs) ==
    IF rs = <<>> THEN Done(st.scopes, st.regions)
    ELSE LET t == Head(rs)
             r == UrlRegion_add_region(st, self, t[1], List(SubSeq(t, 2, Len(t))))
         IN  IF r.exc # "none" THEN r
             ELSE UrlRegion_add_regions(r, self, Tail(rs))

\* BaseRegion.add_exception_handler(exc_type, exc_handler, **handler_attrs):
\*     self.region_attrs['exception_handlers'].append(
\*         ExceptionHandler(exc_type, exc_handler,
\*                          AttributeScope(self.region_attrs, **handler_attrs)))
\* The list is looked up first, then the handler is built, then appended to
\* the list in place (in the scope that binds it).
BaseRegion_add_exception_handler(st, self, exc_type, exc_handler, attrs) ==
    LET ra == st.regions[self].region_attrs
        lst == getitem(st.scopes, ra, "exception_handlers")
        sid == Len(st.scopes) + 1
        H1 == Append(st.scopes, ScopeNew(ra, attrs))
        eh == ExceptionHandler_init(exc_type, Objects[exc_handler], sid)
    IN  IF lst.exc # "none" THEN Failed(st, lst.exc)
        ELSE IF lst.val.t # "list" THEN Failed(st, "AttributeError")
        ELSE IF eh.exc # "none" THEN Failed(st, eh.exc)
        ELSE LET owner == binder(st.scopes, ra, "exception_handlers") IN
             Done([H1 EXCEPT ![owner].data["exception_handlers"] =
                       List(Append(@.items, eh.val))],
                  st.regions)

\* for exc_type, exc_handler, *handler_attrs in exc_handlers:
\*     self.add_exception_handler(exc_type, exc_handler, **(handler_attrs or {}))
RECURSIVE BaseRegion_add_exception_handlers(_, _, _)
BaseRegion_add_exception_handlers(st, self, hs) ==
    IF hs = <<>> THEN Done(st.scopes, st.regions)
    ELSE LET t == Head(hs)
             handler_attrs == SubSeq(t, 3, Len(t))
         IN  IF Len(handler_attrs) # 0 THEN Failed(st, "TypeError")
             ELSE LET r == BaseRegion_add_exception_handler(st, self, t[1], t[2],
                                                            EmptyDict)
                  IN  IF r.exc # "none" THEN r
                      ELSE BaseRegion_add_exception_handlers(r, self, Tail(hs))

\* if '<key>' not in self.region_attrs: self.region_attrs['<key>'] = []
RECURSIVE init_reserved(_, _, _)
init_reserved(H, s, keys) ==
    IF keys = <<>> THEN [H |-> H, exc |-> "none"]
    ELSE IF contains(H, s, Head(keys)) THEN init_reserved(H, s, Tail(keys))
    ELSE LET set == scope_setitem(H, s, Head(keys), List(<<>>)) IN
         IF set.exc # "none" THEN set ELSE init_reserved(set.H, s, Tail(keys))

\* BaseRegion.__init__(name, endpoints=None, regions=None, **region_attrs);
\* UrlRegion.__init__ only calls it.  self.add_endpoints and self.add_regions
\* are those of the object's class.  When the constructor raises, no object
\* is returned and what it had built is unreachable.
BaseRegion_init(st, cls, endpoints, rs, region_attrs) ==
    LET sid == Len(st.scopes) + 1
        self == Len(st.regions) + 1
        s0 == State(Append(st.scopes, ScopeNew(None, region_attrs)),
                    Append(st.regions,
                           [cls |-> cls, endpoints |-> <<>>, regions |-> <<>>,
                            region_attrs |-> sid]))
        s1 == IF ~endpoints.given THEN Done(s0.scopes, s0.regions)
              ELSE IF cls = "UrlRegion"
                   THEN UrlRegion_add_endpoints(s0, self, endpoints.seq)
                   ELSE BaseRegion_add_endpoints(s0, self, endpoints.seq)
        s2 == IF ~rs.given THEN s1
              ELSE IF cls = "UrlRegion"
                   THEN UrlRegion_add_regions(s1, self, rs.seq)
                   ELSE BaseRegion_add_regions(s1, self, rs.seq)
        s3 == init_reserved(s2.scopes, sid, ReservedKeys)
    IN  IF s1.exc # "none" THEN Failed(st, s1.exc)
        ELSE IF s2.exc # "none" THEN Failed(st, s2.exc)
        ELSE IF s3.exc # "none" THEN Failed(st, s3.exc)
        ELSE Done(s3.H, s2.regions)

\* ------------------------------------------------------------------ inputs

\* As in tests/test_util.py, the n-th scope binds its keys to the value n, so
\* a looked-up value tells which scope of the chain supplied it.
ScopeKeys == {"a", "b"}
ScopeItems(n) == {[k \in d |-> Atom(ToString(n))] : d \in SUBSET ScopeKeys}

ScopeIds == 1..Len(scopes)

Call(op, self, args, out) ==
    [op |-> op, self |-> self, args |-> args, err |-> out.exc, ret |-> out.val]

\* ----------------------------------------------------------- scope actions

\* UrlRouter(): the class defines no __init__ and no attribute, so the object
\* holds no rule.  `asked` lists the register_endpoint calls made of it.
UrlRouter_new == [rules |-> <<>>, asked |-> <<>>]

\* class CState(enum.Enum)
CONTEXT_CREATED == 1
CONTEXT_INITIALIZED == 2
REQUEST_PROCESSED == 3
ENDPOINT_DETERMINED == 4
RESPONSE_GENERATED == 5
CONTEXT_CLEANED == 6

\* No BaseContext object yet.  pc tells where the object's with-block is:
\* "created" (not entered), "entered" (inside the block), "exited".
NoContext ==
    [pc |-> "none", app |-> None, request |-> NoVal, endpoint |-> NoVal,
     response |-> NoVal, exception |-> "none", state |-> 0]

Init ==
    /\ scopes = <<>>
    /\ regions = <<>>
    /\ last = Call("none", None, <<>>, Return(NoVal))
    /\ router = UrlRouter_new
    /\ ctx = NoContext
    /\ http = [dicts |-> <<>>, own |-> {}, errors |-> <<>>]

\* AttributeScope(parent, **items), parent an existing scope or None
NewScope(parent, items) ==
    /\ Len(scopes) < MaxScopes
    /\ scopes' = Append(scopes, ScopeNew(parent, items))
    /\ last' = Call("AttributeScope", Len(scopes) + 1, <<parent, items>>, Return(NoVal))
    /\ UNCHANGED <<regions, router, ctx, http>>

\* scope[key]
GetItem(s, key) ==
    /\ last' = Call("__getitem__", s, key, getitem(scopes, s, key))
    /\ UNCHANGED <<scopes, regions, router, ctx, http>>

\* scope.all(key)
All(s, key) ==
    /\ last' = Call("all", s, key, Return(List(all(scopes, s, key))))
    /\ UNCHANGED <<scopes, regions, router, ctx, http>>

\* iterating scope: iter(self._combine()), with the values of that dict
Iter(s) ==
    /\ last' = Call("__iter__", s, <<>>, Return(_combine(scopes, s)))
    /\ UNCHANGED <<scopes, regions, router, ctx, http>>

\* len(scope)
LenOf(s) ==
    /\ last' = Call("__len__", s, <<>>, Return(Len(_combine(scopes, s).keys)))
    /\ UNCHANGED <<scopes, regions, router, ctx, http>>

NextScope ==
    \/ \E p \in {None} \cup ScopeIds, items \in ScopeItems(Len(scopes) + 1) :
          NewScope(p, items)
    \/ \E s \in ScopeIds, k \in ScopeKeys : GetItem(s, k)
    \/ \E s \in ScopeIds, k \in ScopeKeys : All(s, k)
    \/ \E s \in ScopeIds : Iter(s)
    \/ \E s \in ScopeIds : LenOf(s)

SpecScope == Init /\ [][NextScope]_vars

\* ---------------------------------------------------------- region inputs

Classes == {"BaseRegion", "UrlRegion"}
RegionIds == 1..Len(regions)
BaseIds == {r \in RegionIds : regions[r].cls = "BaseRegion"}
UrlIds == {r \in RegionIds : regions[r].cls = "UrlRegion"}

ReservedSet == {ReservedKeys[i] : i \in 1..Len(ReservedKeys)}

\* **region_attrs: any of the reserved keys, each given as an empty list, and
\* possibly the configuration key "a".
RegionAttrs ==
    {[k \in R \cup A |-> IF k = "a" THEN Atom("r") ELSE List(<<>>)] :
        R \in SUBSET ReservedSet, A \in SUBSET {"a"}}

\* **endpoint_attrs
EndpointAttrs ==
    {[k \in D |-> IF k = "a" THEN Atom("e") ELSE List(<<"POST">>)] :
        D \in SUBSET {"a", "methods"}}

EndpointTargets == {"f", "g"}
UrlRules == {"/a", "/b"}
UrlPrefixes == {NoVal, Atom("/p")}
ExcTypes == {"KeyError"}
HandlerTargets == DOMAIN Objects

Here == State(scopes, regions)

Becomes(res) ==
    /\ scopes' = res.scopes
    /\ regions' = res.regions
    /\ UNCHANGED <<router, ctx, http>>

\* ---------------------------------------------------------- region actions

\* cls(name, **region_attrs)
NewRegion(cls, region_attrs) ==
    /\ Len(scopes) < MaxScopes
    /\ LET res == BaseRegion_init(Here, cls, NoneArg, NoneArg, region_attrs) IN
       /\ Becomes(res)
       /\ last' = Call("__init__",
                       IF res.exc = "none" THEN Len(regions) + 1 ELSE None,
                       DOMAIN region_attrs, [exc |-> res.exc, val |-> NoVal])

\* region.add_endpoint(endpoint, **endpoint_attrs) on a BaseRegion
AddEndpoint(self, endpoint, attrs) ==
    /\ Len(scopes) < MaxScopes
    /\ LET res == BaseRegion_add_endpoint(Here, self, endpoint, attrs) IN
       /\ Becomes(res)
       /\ last' = Call("add_endpoint", self, <<"", endpoint, attrs>>,
                       [exc |-> res.exc, val |-> NoVal])

\* region.add_endpoint(url_rule, endpoint, **endpoint_attrs) on a UrlRegion
UrlAddEndpoint(self, url_rule, endpoint, attrs) ==
    /\ Len(scopes) < MaxScopes
    /\ LET res == UrlRegion_add_endpoint(Here, self, url_rule, endpoint, attrs) IN
       /\ Becomes(res)
       /\ last' = Call("add_endpoint", self, <<url_rule, endpoint, attrs>>,
                       [exc |-> res.exc, val |-> NoVal])

\* @region.endpoint(url_rule, **endpoint_attrs) applied to func:
\*     self.add_endpoint(url_rule, func, **endpoint_attrs); return func
EndpointDecorator(self, url_rule, func, attrs) ==
    /\ Len(scopes) < MaxScopes
    /\ LET res == UrlRegion_add_endpoint(Here, self, url_rule, func, attrs) IN
       /\ Becomes(res)
       /\ last' = Call("endpoint", self, <<url_rule, func, attrs>>,
                       [exc |-> res.exc, val |-> Atom(func)])

\* region.add_region(child) on a BaseRegion
AddRegion(self, child) ==
    /\ LET res == BaseRegion_add_region(Here, self, child) IN
       /\ Becomes(res)
       /\ last' = Call("add_region", self, <<child>>,
                       [exc |-> res.exc, val |-> NoVal])

\* region.add_region(child, url_prefix) on a UrlRegion
UrlAddRegion(self, child, url_prefix) ==
    /\ LET res == UrlRegion_add_region(Here, self, child, url_prefix) IN
       /\ Becomes(res)
       /\ last' = Call("add_region", self, <<child>>,
                       [exc |-> res.exc, val |-> NoVal])

\* region.add_exception_handler(exc_type, exc_handler, **handler_attrs)
AddExceptionHandler(self, exc_type, exc_handler, attrs) ==
    /\ Len(scopes) < MaxScopes
    /\ LET res == BaseRegion_add_exception_handler(Here, self, exc_type,
                                                   exc_handler, attrs) IN
       /\ Becomes(res)
       /\ last' = Call("add_exception_handler", self, <<exc_type, exc_handler>>,
                       [exc |-> res.exc, val |-> NoVal])

\* @region.exception(exc_type, **handler_attrs) applied to func:
\*     self.add_exception_handler(exc_type, func, **handler_attrs); return func
ExceptionDecorator(self, exc_type, func, attrs) ==
    /\ Len(scopes) < MaxScopes
    /\ LET res == BaseRegion_add_exception_handler(Here, self, exc_type, func,
                                                   attrs) IN
       /\ Becomes(res)
       /\ last' = Call("exception", self, <<exc_type, func>>,
                       [exc |-> res.exc,
                        val |-> IF res.exc = "none" THEN Atom(func) ELSE NoVal])

NextRegion ==
    \/ \E cls \in Classes, ra \in RegionAttrs : NewRegion(cls, ra)
    \/ \E r \in BaseIds, e \in EndpointTargets, at \in EndpointAttrs :
          AddEndpoint(r, e, at)
    \/ \E r \in UrlIds, u \in UrlRules, e \in EndpointTargets, at \in EndpointAttrs :
          UrlAddEndpoint(r, u, e, at)
    \/ \E r \in UrlIds, u \in UrlRules, e \in EndpointTargets, at \in EndpointAttrs :
          EndpointDecorator(r, u, e, at)
    \/ \E r \in BaseIds, c \in RegionIds : AddRegion(r, c)
    \/ \E r \in UrlIds, c \in RegionIds, p \in UrlPrefixes : UrlAddRegion(r, c, p)
    \/ \E r \in RegionIds, t \in ExcTypes, h \in HandlerTargets :
          AddExceptionHandler(r, t, h, EmptyDict)
    \/ \E r \in RegionIds, t \in ExcTypes, h \in HandlerTargets :
          ExceptionDecorator(r, t, h, EmptyDict)

SpecRegion == Init /\ [][NextRegion]_vars

\* ------------------------------------------------------ bulk registration

SeqsUpTo(T, n) == UNION {[1..k -> T] : k \in 0..n}

BulkAttrs == {[k \in {"a"} |-> Atom("e")]}
\* (endpoint, [endpoint_attrs])
BaseTuples ==
    {<<e>> : e \in EndpointTargets}
        \cup {<<e, at>> : e \in EndpointTargets, at \in BulkAttrs}
\* (url_rule, endpoint, [endpoint_attrs])
UrlTuples ==
    {<<u, e>> : u \in UrlRules, e \in {"f"}}
        \cup {<<u, e, at>> : u \in UrlRules, e \in {"f"}, at \in BulkAttrs}
\* (region, [url_prefix])
RegionTuples == {<<r>> : r \in RegionIds} \cup {<<r, "/p">> : r \in RegionIds}
\* (exc_type, exc_handler, [handler_attrs])
HandlerTuples ==
    {<<t, h>> : t \in ExcTypes, h \in {"f", "u"}}
        \cup {<<t, h, at>> : t \in ExcTypes, h \in {"f"}, at \in BulkAttrs}

AllReserved == [k \in ReservedSet |-> List(<<>>)]

\* cls(name, endpoints, regions, **region_attrs)
NewRegionWith(cls, endpoints, rs) ==
    /\ Len(scopes) + 1 + Len(endpoints.seq) <= MaxScopes
    /\ LET res == BaseRegion_init(Here, cls, endpoints, rs, AllReserved) IN
       /\ Becomes(res)
       /\ last' = Call("__init__",
                       IF res.exc = "none" THEN Len(regions) + 1 ELSE None,
                       <<endpoints, rs>>, [exc |-> res.exc, val |-> NoVal])

\* region.add_endpoints(endpoints) on a BaseRegion
AddEndpoints(self, endpoints) ==
    /\ Len(scopes) + Len(endpoints) <= MaxScopes
    /\ LET res == BaseRegion_add_endpoints(Here, self, endpoints) IN
       /\ Becomes(res)
       /\ last' = Call("add_endpoints", self, endpoints,
                       [exc |-> res.exc, val |-> NoVal])

\* region.add_endpoints(endpoints) on a UrlRegion
UrlAddEndpoints(self, endpoints) ==
    /\ Len(scopes) + Len(endpoints) <= MaxScopes
    /\ LET res == UrlRegion_add_endpoints(Here, self, endpoints) IN
       /\ Becomes(res)
       /\ last' = Call("add_endpoints", self, endpoints,
                       [exc |-> res.exc, val |-> NoVal])

\* region.add_regions(regions) on a BaseRegion
AddRegions(self, rs) ==
    /\ LET res == BaseRegion_add_regions(Here, self, rs) IN
       /\ Becomes(res)
       /\ last' = Call("add_regions", self, rs, [exc |-> res.exc, val |-> NoVal])

\* region.add_regions(regions) on a UrlRegion
UrlAddRegions(self, rs) ==
    /\ LET res == UrlRegion_add_regions(Here, self, rs) IN
       /\ Becomes(res)
       /\ last' = Call("add_regions", self, rs, [exc |-> res.exc, val |-> NoVal])

\* region.add_exception_handlers(exc_handlers)
AddExceptionHandlers(self, hs) ==
    /\ Len(scopes) + Len(hs) <= MaxScopes
    /\ LET res == BaseRegion_add_exception_handlers(Here, self, hs) IN
       /\ Becomes(res)
       /\ last' = Call("add_exception_handlers", self, hs,
                       [exc |-> res.exc, val |-> NoVal])

NextBulk ==
    \/ \E e \in {NoneArg} \cup {SeqArg(q) : q \in SeqsUpTo(BaseTuples, 1)},
          rs \in {NoneArg} \cup {SeqArg(q) : q \in SeqsUpTo(RegionIds, 1)} :
          NewRegionWith("BaseRegion", e, rs)
    \/ \E e \in {NoneArg} \cup {SeqArg(q) : q \in SeqsUpTo(UrlTuples, 1)},
          rs \in {NoneArg} \cup {SeqArg(q) : q \in SeqsUpTo(RegionTuples, 1)} :
          NewRegionWith("UrlRegion", e, rs)
    \/ \E r \in BaseIds, q \in SeqsUpTo(BaseTuples, MaxBulk) : AddEndpoints(r, q)
    \/ \E r \in UrlIds, q \in SeqsUpTo(UrlTuples, MaxBulk) : UrlAddEndpoints(r, q)
    \/ \E r \in BaseIds, q \in SeqsUpTo(RegionIds, MaxBulk) : AddRegions(r, q)
    \/ \E r \in UrlIds, q \in SeqsUpTo(RegionTuples, MaxBulk) : UrlAddRegions(r, q)
    \/ \E r \in RegionIds, q \in SeqsUpTo(HandlerTuples, MaxBulk) :
          AddExceptionHandlers(r, q)

SpecBulk == Init /\ [][NextBulk]_vars

\* ------------------------------ exceptions.py: the exception classes

\* The base class of each exception class (all single inheritance); the
\* classes of builtins that the inputs raise are listed with them.
Base ==
    [BaseException |-> "object",
     Exception |-> "BaseException",
     KeyboardInterrupt |-> "BaseException",
     LookupError |-> "Exception",
     KeyError |-> "LookupError",
     BaseHTTPException |-> "Exception",
     BaseClientError |-> "BaseHTTPException",
     BaseServerError |-> "BaseHTTPException",
     BadRequestError |-> "BaseClientError",
     NotFoundError |-> "BaseClientError",
     InternalServerError |-> "BaseServerError",
     InvalidParameterError |-> "BadRequestError"]

ExcClasses == DOMAIN Base

\* cls.__mro__
RECURSIVE mro(_)
mro(c) == IF c = "object" THEN <<"object">> ELSE <<c>> \o mro(Base[c])

issubclass(a, b) == \E i \in 1..Len(mro(a)) : mro(a)[i] = b

\* cls.__name__ < cls.__name__ is str.__lt__: the names in that order.
NameOrder ==
    <<"BadRequestError", "BaseClientError", "BaseException",
      "BaseHTTPException", "BaseServerError", "Exception",
      "InternalServerError", "InvalidParameterError", "KeyError",
      "KeyboardInterrupt", "LookupError", "NotFoundError">>
NameRank(n) == CHOOSE i \in 1..Len(NameOrder) : NameOrder[i] = n

\* ------------------------------------- util.py: the comparison functions

\* _util_cmp(x, y) on operands that < orders (here: ints)
\*     return 0 if x == y else (-1 if x < y else 1)
_util_cmp(x, y) == IF x = y THEN 0 ELSE IF x < y THEN -1 ELSE 1

\* _util_cmp(x, y) on classes and on functions: == is identity, and <
\* between two classes or two functions raises TypeError.
_util_cmp_objects(x, y) == IF x = y THEN Return(0) ELSE Raise("TypeError")

\* exc_type_cmp(exc_type1, exc_type2)
exc_type_cmp(exc_type1, exc_type2) ==
    IF issubclass(exc_type1, exc_type2) THEN -1
    ELSE IF issubclass(exc_type2, exc_type1) THEN 1
    ELSE LET dcmp == _util_cmp(Len(mro(exc_type1)), Len(mro(exc_type2))) IN
         IF dcmp # 0 THEN dcmp
         ELSE _util_cmp(NameRank(exc_type1), NameRank(exc_type2))

\* ExceptionHandler._cmp(self, other):
\*     tcmp = _util_cmp(self.exc_type, other.exc_type)
\*     return tcmp if tcmp != 0 else _util_cmp(self.callable, other.callable)
ExceptionHandler_cmp(self, other) ==
    LET tcmp == _util_cmp_objects(self.exc_type, other.exc_type) IN
    IF tcmp.exc # "none" THEN tcmp
    ELSE IF tcmp.val # 0 THEN tcmp
    ELSE _util_cmp_objects(self.callable, other.callable)

\* ---------------------------------------------- util.py: DispatchParam

\* An inspect.Parameter as DispatchParam.from_signature reads it: whether it
\* is annotated, and its default ("empty" is Signature.empty: none declared).
DeclaredDefaults == {"empty", "None", "0", "5"}
Parameters == [annotated : BOOLEAN, default : DeclaredDefaults]

\* DispatchParam.from_signature(signature, type_required); of the
\* DispatchParam built, its default:
\*     default = signature.default if signature.default is not None else _MISSING
DispatchParam_from_signature(p, type_required) ==
    IF type_required /\ ~p.annotated THEN Raise("Exception")
    ELSE Return(Atom(IF p.default # "None" THEN p.default ELSE "_MISSING"))

\* dispatchable(parameters), for one tuple (name, type_, *default); of the
\* DispatchParam built, its default:
\*     DispatchParam(name, type_, default or _MISSING)
\* where default is the list of the tuple's remaining items.
dispatchable_param(default) ==
    IF Len(default) # 0 THEN List(default) ELSE Atom("_MISSING")

\* ------------------------------------------ util.py: Dispatchable.__call__

Tuple(items) == [t |-> "tuple", items |-> items]
DictVal(d) == [t |-> "dict", items |-> d]

\* def h(*args, **kwargs): a callable that takes any arguments; what it was
\* called with, and what it returned.
Called(pos, kw) == [calls |-> <<[pos |-> pos, kw |-> kw]>>, result |-> Atom("r")]

\* Dispatchable.__call__(self, *args, **kwargs):
\*     return self.callable(args, kwargs)
Dispatchable_call(args, kwargs) ==
    Called(<<Tuple(args), DictVal(kwargs)>>, EmptyDict)

\* --------------------------------------------------------- util.py: Config

\* The names of the entries loaded, with their characters.
Chars ==
    [HELLO |-> <<"H", "E", "L", "L", "O">>,
     hello |-> <<"h", "e", "l", "l", "o">>,
     A_1 |-> <<"A", "_", "1">>,
     Mixed |-> <<"M", "i", "x", "e", "d">>,
     KEEP |-> <<"K", "E", "E", "P">>,
     low |-> <<"l", "o", "w">>]
UpperLetters ==
    {"A", "B", "C", "D", "E", "F", "G", "H", "I", "J", "K", "L", "M",
     "N", "O", "P", "Q", "R", "S", "T", "U", "V", "W", "X", "Y", "Z"}
LowerLetters ==
    {"a", "b", "c", "d", "e", "f", "g", "h", "i", "j", "k", "l", "m",
     "n", "o", "p", "q", "r", "s", "t", "u", "v", "w", "x", "y", "z"}

\* str.isupper(): some cased character, and no lowercase one
isupper(key) ==
    /\ \E i \in 1..Len(Chars[key]) : Chars[key][i] \in UpperLetters
    /\ \A i \in 1..Len(Chars[key]) : Chars[key][i] \notin LowerLetters

\* Config.__init__(base_path, **defaults): self._data = defaults or {}
Config_init(defaults) == defaults

\* from_dict that stores every key
FromDictUnfiltered(data, obj) ==
    [k \in DOMAIN data \cup DOMAIN obj |->
        IF k \in DOMAIN obj THEN obj[k] ELSE data[k]]

\* Config.from_dict(obj):
\*     for key in obj: if key.isupper(): self._data[key] = obj[key]
Config_from_dict(data, obj) ==
    [k \in DOMAIN data \cup {x \in DOMAIN obj : isupper(x)} |->
        IF k \in DOMAIN obj /\ isupper(k) THEN obj[k] ELSE data[k]]

\* Config.from_object(obj), attrs the object's attributes:
\*     for key in dir(obj): if key.isupper(): self._data[key] = getattr(obj, key)
\* (the names dir() adds to them all begin and end with "__" in lowercase)
Config_from_object(data, attrs) ==
    [k \in DOMAIN data \cup {x \in DOMAIN attrs : isupper(x)} |->
        IF k \in DOMAIN attrs /\ isupper(k) THEN attrs[k] ELSE data[k]]

\* Config.create(obj, defaults): obj a dict, or any other object that is no
\* str
Config_create(kind, obj, defaults) ==
    IF kind = "dict" THEN Config_from_dict(Config_init(defaults), obj)
    ELSE Config_from_object(Config_init(defaults), obj)

\* ------------------------------------------------------- util.py: actions

\* What a dict or an object to load from holds, and the defaults.
Loaded ==
    UNION {[S -> {Atom("o")}] : S \in SUBSET {"HELLO", "hello", "A_1", "Mixed"}}
ConfigDefaults ==
    UNION {[S -> {Atom("d")}] : S \in SUBSET {"HELLO", "KEEP", "low"}}

\* The arguments of a call.
CallArgs == SeqsUpTo({Atom("1"), Atom("2")}, 2)
CallKwargs == {EmptyDict, [k \in {"x"} |-> Atom("3")]}

\* DispatchParam.from_signature(p, type_required)
ParamFromSignature(p, type_required) ==
    /\ last' = Call("DispatchParam.from_signature", None, <<p, type_required>>,
                    DispatchParam_from_signature(p, type_required))
    /\ UNCHANGED <<scopes, regions, router, ctx, http>>

\* @dispatchable([(name, type_, *default)], return_type)
DispatchableDecorator(default) ==
    /\ last' = Call("dispatchable", None, <<default>>,
                    Return(dispatchable_param(default)))
    /\ UNCHANGED <<scopes, regions, router, ctx, http>>

\* Dispatchable(h, parameters, return_type)(*args, **kwargs)
CallDispatchable(args, kwargs) ==
    /\ last' = Call("__call__", None, <<args, kwargs>>,
                    Return(Dispatchable_call(args, kwargs)))
    /\ UNCHANGED <<scopes, regions, router, ctx, http>>

\* Config.create(obj, defaults)
ConfigCreate(kind, obj, defaults) ==
    /\ last' = Call("Config.create", None, <<kind, obj, defaults>>,
                    Return(Config_create(kind, obj, defaults)))
    /\ UNCHANGED <<scopes, regions, router, ctx, http>>

\* Handler objects as _cmp reads them: an exception class and a callable.
Handlers == [exc_type : ExcClasses, callable : {"f", "g"}]

\* exc_type_cmp(a, b)
ExcTypeCmp(a, b) ==
    /\ last' = Call("exc_type_cmp", None, <<a, b>>, Return(exc_type_cmp(a, b)))
    /\ UNCHANGED <<scopes, regions, router, ctx, http>>

\* h1._cmp(h2), as h1 < h2, h1 == h2, ... evaluate it
HandlerCmp(h1, h2) ==
    /\ last' = Call("_cmp", None, <<h1, h2>>, ExceptionHandler_cmp(h1, h2))
    /\ UNCHANGED <<scopes, regions, router, ctx, http>>

\* Dispatchable.from_signature(o)
FromSignature(o) ==
    /\ last' = Call("from_signature", None, <<o>>,
                    LET d == Dispatchable_from_signature("Dispatchable", Objects[o])
                    IN  [exc |-> d.exc, val |-> NoVal])
    /\ UNCHANGED <<scopes, regions, router, ctx, http>>

\* ExceptionHandler(exc_type, o, None)
NewExceptionHandler(exc_type, o) ==
    /\ last' = Call("ExceptionHandler", None, <<exc_type, o>>,
                    LET h == ExceptionHandler_init(exc_type, Objects[o], NoVal)
                    IN  [exc |-> h.exc, val |-> NoVal])
    /\ UNCHANGED <<scopes, regions, router, ctx, http>>

NextUtil ==
    \/ \E a \in ExcClasses, b \in ExcClasses : ExcTypeCmp(a, b)
    \/ \E h1 \in Handlers, h2 \in Handlers : HandlerCmp(h1, h2)
    \/ \E o \in DOMAIN Objects : FromSignature(o)
    \/ \E t \in ExcClasses, o \in DOMAIN Objects : NewExceptionHandler(t, o)
    \/ \E p \in Parameters, tr \in BOOLEAN : ParamFromSignature(p, tr)
    \/ \E d \in SeqsUpTo({"None", "0", "5"}, 1) : DispatchableDecorator(d)
    \/ \E a \in CallArgs, k \in CallKwargs : CallDispatchable(a, k)
    \/ \E kind \in {"dict", "object"}, obj \in Loaded, d \in ConfigDefaults :
          ConfigCreate(kind, obj, d)

SpecUtil == Init /\ [][NextUtil]_vars

\* ------------------------------------------------- routing.py: UrlRouter

\* The endpoints handed to the router: the callable and the request methods
\* it serves.
RouterEndpoints == [target : {"f", "g"}, methods : {{"GET"}, {"POST"}}]
RequestMethods == {"GET", "POST"}

\* UrlRouter.register_endpoint(self, url_rule, endpoint): the body is a
\* docstring, it stores nothing and returns None.
UrlRouter_register_endpoint(rules, url_rule, endpoint) == rules

\* Resolution of (method, path) over the rules the router holds.  routing.py
\* has no code for it; this is the procedure of the design: the first rule,
\* in registration order, whose pattern matches the path and whose method set
\* holds the method wins; with rules matching the path but none allowing the
\* method the outcome is method-not-allowed with the union of their method
\* sets; with no rule matching the path it is not-found.  A rule without
\* parameters matches the path equal to it.
resolve(rules, method, path) ==
    LET onPath == SelectSeq(rules, LAMBDA r : r.url_rule = path)
        hits == SelectSeq(onPath, LAMBDA r : method \in r.endpoint.methods)
    IN  IF Len(hits) > 0
        THEN [outcome |-> "found", endpoint |-> {hits[1].endpoint},
              allowed |-> {}]
        ELSE IF Len(onPath) > 0
        THEN [outcome |-> "method_not_allowed", endpoint |-> {},
              allowed |-> UNION {onPath[i].endpoint.methods :
                                     i \in 1..Len(onPath)}]
        ELSE [outcome |-> "not_found", endpoint |-> {}, allowed |-> {}]

\* router.register_endpoint(url_rule, endpoint)
RegisterEndpoint(url_rule, endpoint) ==
    /\ Len(router.asked) < MaxRules
    /\ router' = [rules |-> UrlRouter_register_endpoint(router.rules, url_rule,
                                                        endpoint),
                  asked |-> Append(router.asked,
                                   [url_rule |-> url_rule, endpoint |-> endpoint])]
    /\ last' = Call("register_endpoint", None, <<url_rule, endpoint>>,
                    Return(NoVal))
    /\ UNCHANGED <<scopes, regions, ctx, http>>

\* resolving a request's method and path
Resolve(method, path) ==
    /\ last' = Call("resolve", None, <<method, path>>,
                    Return(resolve(router.rules, method, path)))
    /\ UNCHANGED <<scopes, regions, router, ctx, http>>

NextRouter ==
    \/ \E u \in UrlRules, e \in RouterEndpoints : RegisterEndpoint(u, e)
    \/ \E m \in RequestMethods, p \in UrlRules : Resolve(m, p)

SpecRouter == Init /\ [][NextRouter]_vars

\* ----------------------------------------------- context.py: BaseContext

\* BaseContext.__init__(self, app, environ)
BaseContext_init(app) ==
    [pc |-> "created", app |-> app, request |-> NoVal, endpoint |-> NoVal,
     response |-> NoVal, exception |-> "none", state |-> CONTEXT_CREATED]

\* BaseContext.__enter__(self): return self
BaseContext_enter(c) == c

\* An __exit__ that returns None for an exception as well.
ExitReturnsNone(c, exc_type) == [ctx |-> c, ret |-> FALSE]

\* BaseContext.__exit__(self, exc_type, exc_value, exc_trace): returns True
\* when an exception is passed and None otherwise; assigns no field.
BaseContext_exit(c, exc_type) == [ctx |-> c, ret |-> exc_type # "none"]

\* A _process_request that sets the state past the next one.
ProcessRequestSkips(c) == [c EXCEPT !.state = ENDPOINT_DETERMINED]

\* The state transition actions: each body is `pass`.
BaseContext_process_request(c) == c
BaseContext_determine_endpoint(c) == c
BaseContext_dispatch_request(c) == c

\* ------------------------------------------------------- context inputs

\* Entries of an exception_handlers list given at construction:
\* (exception type, callable)
HandlerEntries ==
    {[exc_type |-> "BaseClientError", callable |-> "f"],
     [exc_type |-> "NotFoundError", callable |-> "g"]}
HandlerLists == {<<>>} \cup {<<e>> : e \in HandlerEntries}

\* **region_attrs of the application: the three reserved keys, with the
\* handlers of the application's level.
AppAttrs ==
    {[k \in ReservedSet |->
         IF k = "exception_handlers" THEN List(hs) ELSE List(<<>>)] :
        hs \in HandlerLists}

\* **endpoint_attrs: nothing, or the handlers of the endpoint's own level.
HandlingAttrs ==
    {EmptyDict} \cup
        {[k \in {"exception_handlers"} |-> List(<<e>>)] : e \in HandlerEntries}

\* What the block raises: nothing, or an exception of one of these classes.
Raised == {"none", "NotFoundError", "KeyError", "KeyboardInterrupt"}

\* ------------------------------------------------------ context actions

\* ctx = BaseContext(app, environ)
NewContext(app) ==
    /\ ctx' = BaseContext_init(app)
    /\ last' = Call("BaseContext", None, <<app>>, Return(NoVal))
    /\ UNCHANGED <<scopes, regions, router, http>>

\* with ctx: -- the statement calls ctx.__enter__()
Enter ==
    /\ ctx.pc \in {"created", "exited"}
    /\ ctx' = [BaseContext_enter(ctx) EXCEPT !.pc = "entered"]
    /\ last' = Call("__enter__", None, <<>>, Return(NoVal))
    /\ UNCHANGED <<scopes, regions, router, http>>

ProcessRequest ==
    /\ ctx.pc # "none"
    /\ ctx' = BaseContext_process_request(ctx)
    /\ last' = Call("_process_request", None, <<>>, Return(NoVal))
    /\ UNCHANGED <<scopes, regions, router, http>>

DetermineEndpoint ==
    /\ ctx.pc # "none"
    /\ ctx' = BaseContext_determine_endpoint(ctx)
    /\ last' = Call("_determine_endpoint", None, <<>>, Return(NoVal))
    /\ UNCHANGED <<scopes, regions, router, http>>

DispatchRequest ==
    /\ ctx.pc # "none"
    /\ ctx' = BaseContext_dispatch_request(ctx)
    /\ last' = Call("_dispatch_request", None, <<>>, Return(NoVal))
    /\ UNCHANGED <<scopes, regions, router, http>>

\* The block of the with statement ends, normally (exc = "none") or by an
\* exception of class exc raised while the code of scope `at` ran.  The
\* statement calls ctx.__exit__(exc_type, exc_value, exc_trace) and re-raises
\* the exception unless __exit__ returned a true value; last.err is what
\* leaves the statement.
Exit(exc, at) ==
    /\ ctx.pc = "entered"
    /\ LET out == BaseContext_exit(ctx, exc) IN
       /\ ctx' = [out.ctx EXCEPT !.pc = "exited"]
       /\ last' = Call("__exit__", None, <<exc, at>>,
                       [exc |-> IF exc # "none" /\ ~out.ret THEN exc ELSE "none",
                        val |-> IF out.ret THEN Atom("True") ELSE NoVal])
    /\ UNCHANGED <<scopes, regions, router, http>>

NextContext ==
    \/ \E ra \in AppAttrs : NewRegion("BaseRegion", ra)
    \/ \E r \in BaseIds, at \in HandlingAttrs : AddEndpoint(r, "f", at)
    \/ \E r \in RegionIds : NewContext(r)
    \/ Enter
    \/ ProcessRequest
    \/ DetermineEndpoint
    \/ DispatchRequest
    \/ \E exc \in Raised \ {"none"}, at \in ScopeIds : Exit(exc, at)
    \/ Exit("none", None)

SpecContext == Init /\ [][NextContext]_vars

\* ------------------------------------- exceptions.py: the HTTP catalog

\* The status code the module's docstring gives for each exception kind.
Documented ==
    [MovedPermanentlyException |-> 301, FoundException |-> 302,
     SeeOtherException |-> 303, NotModifiedException |-> 304,
     UseProxyException |-> 305, TemporaryRedirectException |-> 307,
     PermanentRedirectException |-> 308,
     BadRequestError |-> 400, UnauthorizedError |-> 401,
     PaymentRequiredError |-> 402, ForbiddenError |-> 403,
     NotFoundError |-> 404, MethodNotAllowedError |-> 405,
     NotAcceptableError |-> 406, ProxyAuthRequiredError |-> 407,
     RequestTimeoutError |-> 408, ConflictError |-> 409, GoneError |-> 410,
     LengthRequiredError |-> 411, PreconditionFailedError |-> 412,
     PayloadTooLargeError |-> 413, URITooLongError |-> 414,
     UnsupportedMediaTypeError |-> 415, RangeNotSatisfiableError |-> 416,
     ExpectationFailedError |-> 417, MisdirectedRequestError |-> 421,
     UnprocessableEntityError |-> 422, UpgradeRequiredError |-> 426,
     PreconditionRequiredError |-> 428, TooManyRequestsError |-> 429,
     InternalServerError |-> 500, EndpointNotImplementedError |-> 501,
     BadGatewayError |-> 502, ServiceUnavailableError |-> 503,
     GatewayTimeoutError |-> 504, UnsupportedHTTPVersionError |-> 505,
     InvalidParameterError |-> 400, MissingParameterError |-> 400,
     EndpointNotFoundError |-> 404, ContextProcessingError |-> 500,
     EndpointRuntimeError |-> 500]

\* The status_code each kind's __init__ passes to BaseHTTPException.__init__;
\* the custom kinds define no __init__ and use their base class's.
StatusCode ==
    [MovedPermanentlyException |-> 301, FoundException |-> 302,
     SeeOtherException |-> 303, NotModifiedException |-> 304,
     UseProxyException |-> 305, TemporaryRedirectException |-> 307,
     PermanentRedirectException |-> 308,
     BadRequestError |-> 400, UnauthorizedError |-> 401,
     PaymentRequiredError |-> 402, ForbiddenError |-> 403,
     NotFoundError |-> 404, MethodNotAllowedError |-> 405,
     NotAcceptableError |-> 406, ProxyAuthRequiredError |-> 407,
     RequestTimeoutError |-> 408, ConflictError |-> 409, GoneError |-> 410,
     LengthRequiredError |-> 411, PreconditionFailedError |-> 412,
     PayloadTooLargeError |-> 413, URITooLongError |-> 414,
     UnsupportedMediaTypeError |-> 415, RangeNotSatisfiableError |-> 416,
     ExpectationFailedError |-> 417, MisdirectedRequestError |-> 421,
     UnprocessableEntityError |-> 422, UpgradeRequiredError |-> 426,
     PreconditionRequiredError |-> 428, TooManyRequestsError |-> 429,
     InternalServerError |-> 500, EndpointNotImplementedError |-> 501,
     BadGatewayError |-> 502, ServiceUnavailableError |-> 503,
     GatewayTimeoutError |-> 504, UnsupportedHTTPVersionError |-> 505,
     InvalidParameterError |-> 400, MissingParameterError |-> 400,
     EndpointNotFoundError |-> 404, ContextProcessingError |-> 500,
     EndpointRuntimeError |-> 500]

\* The 3xx kinds; those whose __init__ has a location parameter; and those
\* that write  headers={'Location': location} **kwargs  (no comma: the dict
\* raised to the power of kwargs, evaluated before the call).
Redirections ==
    {"MovedPermanentlyException", "FoundException", "SeeOtherException",
     "NotModifiedException", "UseProxyException",
     "TemporaryRedirectException", "PermanentRedirectException"}
TakesLocation == Redirections \ {"NotModifiedException"}
HeadersPowKwargs == {"TemporaryRedirectException", "PermanentRedirectException"}

\* BaseHTTPException.__init__(self, status_code, name=None, description=None,
\*                            headers=None, data=None)
\* called with the keywords `explicit` and **kwargs: a keyword given twice, or
\* one that is no parameter, is a TypeError.
BaseHTTPException_parameters ==
    {"status_code", "name", "description", "headers", "data"}
BaseHTTPException_init(explicit, kwargs) ==
    IF DOMAIN explicit \cap DOMAIN kwargs # {} THEN Raise("TypeError")
    ELSE LET kw == explicit @@ kwargs IN
         IF ~(DOMAIN kw \subseteq BaseHTTPException_parameters)
         THEN Raise("TypeError")
         ELSE Return([status_code |-> kw["status_code"],
                      headers |-> IF "headers" \in DOMAIN kw
                                  THEN kw["headers"] ELSE NoVal,
                      data |-> IF "data" \in DOMAIN kw THEN kw["data"] ELSE NoVal])

Location(location) == DictVal([k \in {"Location"} |-> location])

\* kind(location, **kwargs) for the 3xx kinds with a location, kind(**kwargs)
\* for the others (MethodNotAllowedError apart, below)
HTTPException_new(kind, location, kwargs) ==
    IF kind \in HeadersPowKwargs THEN Raise("TypeError")
    ELSE IF kind \in TakesLocation
    THEN BaseHTTPException_init(
             [k \in {"status_code", "has_representation", "headers"} |->
                 IF k = "status_code" THEN StatusCode[kind]
                 ELSE IF k = "headers" THEN Location(location) ELSE FALSE],
             kwargs)
    ELSE IF kind \in Redirections
    THEN BaseHTTPException_init(
             [k \in {"status_code", "has_representation"} |->
                 IF k = "status_code" THEN StatusCode[kind] ELSE FALSE],
             kwargs)
    ELSE BaseHTTPException_init([k \in {"status_code"} |-> StatusCode[kind]],
                                kwargs)

\* A MethodNotAllowedError that keeps one dict for every call without data
\* (a default evaluated once).
MethodNotAllowedSharedDefault(h, allowed_methods, data) ==
    LET shared == IF h.own # {} THEN CHOOSE d \in h.own : TRUE ELSE None
        id == IF data # None THEN data
              ELSE IF shared # None THEN shared ELSE Len(h.dicts) + 1
        D0 == IF id > Len(h.dicts) THEN Append(h.dicts, EmptyDict) ELSE h.dicts
        D1 == [D0 EXCEPT ![id] = ("allowed_methods" :> List(allowed_methods)) @@ @]
    IN  [dicts |-> D1,
         own |-> IF data = None THEN h.own \cup {id} ELSE h.own,
         errors |-> Append(h.errors,
                           [status_code |-> StatusCode["MethodNotAllowedError"],
                            headers |-> NoVal, data |-> id])]

\* MethodNotAllowedError(allowed_methods, data=<dict>) or without data:
\*     data = kwargs.pop('data', {})
\*     data['allowed_methods'] = allowed_methods
\*     super().__init__(status_code=405, data=data, **kwargs)
\* h.dicts is the heap of dict objects (data is a dict's index, None for a
\* call without data); h.own are the dicts made by the {} of this method.
MethodNotAllowedError_new(h, allowed_methods, data) ==
    LET id == IF data # None THEN data ELSE Len(h.dicts) + 1
        D0 == IF data # None THEN h.dicts ELSE Append(h.dicts, EmptyDict)
        D1 == [D0 EXCEPT ![id] = ("allowed_methods" :> List(allowed_methods)) @@ @]
    IN  [dicts |-> D1,
         own |-> IF data = None THEN h.own \cup {id} ELSE h.own,
         errors |-> Append(h.errors,
                           [status_code |-> StatusCode["MethodNotAllowedError"],
                            headers |-> NoVal, data |-> id])]

\* ------------------------------------------------- exceptions.py: actions

CatalogKinds == DOMAIN StatusCode \ {"MethodNotAllowedError"}

\* **kwargs of a construction
ExceptionKwargs ==
    {EmptyDict,
     [k \in {"headers"} |-> Location("/y")],
     [k \in {"description"} |-> Atom("d")],
     [k \in {"name"} |-> Atom("n")]}

\* kind(location, **kwargs) / kind(**kwargs)
NewHTTPException(kind, location, kwargs) ==
    /\ last' = Call(kind, None, <<location, kwargs>>,
                    HTTPException_new(kind, location, kwargs))
    /\ UNCHANGED <<scopes, regions, router, ctx, http>>

NextCatalog ==
    \/ \E kind \in CatalogKinds, kw \in ExceptionKwargs :
          NewHTTPException(kind, IF kind \in TakesLocation THEN "/x" ELSE "", kw)

SpecCatalog == Init /\ [][NextCatalog]_vars

\* d = {} or d = {'x': 1}, a dict of the caller's
NewDict(d) ==
    /\ Len(http.dicts) < MaxDicts
    /\ http' = [http EXCEPT !.dicts = Append(@, d)]
    /\ last' = Call("dict", None, <<>>, Return(NoVal))
    /\ UNCHANGED <<scopes, regions, router, ctx>>

\* MethodNotAllowedError(allowed_methods) (data = None here) or
\* MethodNotAllowedError(allowed_methods, data=d)
NewMethodNotAllowed(allowed_methods, data) ==
    /\ Len(http.errors) < MaxErrors
    /\ data = None => Len(http.dicts) < MaxDicts
    /\ http' = MethodNotAllowedError_new(http, allowed_methods, data)
    /\ last' = Call("MethodNotAllowedError", Len(http.errors) + 1,
                    <<allowed_methods, data>>, Return(NoVal))
    /\ UNCHANGED <<scopes, regions, router, ctx>>

NextHttp ==
    \/ \E d \in {EmptyDict, [k \in {"x"} |-> Atom("1")]} : NewDict(d)
    \/ \E m \in {<<"GET">>, <<"GET", "POST">>},
          d \in {None} \cup (1..Len(http.dicts)) :
          NewMethodNotAllowed(m, d)

SpecHttp == Init /\ [][NextHttp]_vars

\* ---------------------------------------------- claims: AttributeScope

\* The scopes of s's chain, from s up to the root.
RECURSIVE Chain(_, _)
Chain(H, s) == IF s = None THEN <<>> ELSE <<s>> \o Chain(H, H[s].parent)

\* The scopes of s's chain that bind key locally, closest first.
Binders(H, s, key) == SelectSeq(Chain(H, s), LAMBDA x : key \in DOMAIN H[x].data)

\* C1: a lookup of a key that the scope does not bind locally, but that some
\* ancestor binds, returns the value bound in the nearest such ancestor
\* (for a child B of A and k bound only in A, B[k] = A[k]).
C1_InheritedLookup ==
    (/\ last.op = "__getitem__"
     /\ last.args \notin DOMAIN scopes[last.self].data
     /\ Binders(scopes, last.self, last.args) # <<>>)
    => /\ last.err = "none"
       /\ last.ret = scopes[Head(Binders(scopes, last.self, last.args))].data[last.args]

\* C1 witness: a lookup answered by the grandparent, past a parent that does
\* not bind the key.
C1_Witness ==
    /\ last.op = "__getitem__"
    /\ last.err = "none"
    /\ Binders(scopes, last.self, last.args) # <<>>
    /\ Len(Chain(scopes, last.self)) >= 3
    /\ Head(Binders(scopes, last.self, last.args)) = Chain(scopes, last.self)[3]

\* C2 as stated: when child and parent both bind k, child[k] is the child's
\* value and child.all(k) is exactly [child_value, parent_value].
C2_Original ==
    /\ (/\ last.op = "__getitem__"
        /\ last.args \in DOMAIN scopes[last.self].data)
       => last.ret = scopes[last.self].data[last.args]
    /\ (/\ last.op = "all"
        /\ scopes[last.self].parent # None
        /\ last.args \in DOMAIN scopes[last.self].data
        /\ last.args \in DOMAIN scopes[scopes[last.self].parent].data)
       => last.ret = List(<<scopes[last.self].data[last.args],
                            scopes[scopes[last.self].parent].data[last.args]>>)

\* C2 amended: the same, provided no scope above the parent binds k.
C2_Shadowing ==
    /\ (/\ last.op = "__getitem__"
        /\ last.args \in DOMAIN scopes[last.self].data)
       => /\ last.err = "none"
          /\ last.ret = scopes[last.self].data[last.args]
    /\ (/\ last.op = "all"
        /\ scopes[last.self].parent # None
        /\ last.args \in DOMAIN scopes[last.self].data
        /\ last.args \in DOMAIN scopes[scopes[last.self].parent].data
        /\ Len(Binders(scopes, last.self, last.args)) = 2)
       => last.ret = List(<<scopes[last.self].data[last.args],
                            scopes[scopes[last.self].parent].data[last.args]>>)

\* C2 witness: all(k) called on a child that shadows its parent's k, under a
\* grandparent that does not bind k.
C2_Witness ==
    /\ last.op = "all"
    /\ Len(Chain(scopes, last.self)) >= 3
    /\ last.args \in DOMAIN scopes[last.self].data
    /\ last.args \in DOMAIN scopes[scopes[last.self].parent].data
    /\ Len(Binders(scopes, last.self, last.args)) = 2
    /\ Len(last.ret.items) = 2

\* -------------------------------------------------------- claims: regions

\* The keys a lookup is tried with: the reserved ones, the configuration
\* keys of the inputs, and one that nothing binds.
LookupKeys == ReservedSet \cup {"a", "methods", "zz"}

\* The region a subregion entry names: BaseRegion lists regions, UrlRegion
\* lists (region, url_prefix) tuples.
ChildOf(r, i) ==
    IF regions[r].cls = "UrlRegion" THEN regions[r].regions[i][1]
    ELSE regions[r].regions[i]
Children(r) == {ChildOf(r, i) : i \in 1..Len(regions[r].regions)}

\* The regions below r, to any depth.
RECURSIVE Below(_, _)
Below(r, n) ==
    IF n = 0 THEN {}
    ELSE Children(r) \cup UNION {Below(c, n - 1) : c \in Children(r)}
Descendants(r) == Below(r, Len(regions))

RegionScope(r) == regions[r].region_attrs

\* C3 as stated: after parent.add_region(child) the child is in the parent's
\* subregion list and every key bound for the parent and not bound by the
\* child itself resolves, on the child's scope, to the parent's value.
C3_Original ==
    last.op = "add_region"
    => /\ last.args[1] \in Children(last.self)
       /\ \A k \in LookupKeys :
             (/\ contains(scopes, RegionScope(last.self), k)
              /\ k \notin DOMAIN scopes[RegionScope(last.args[1])].data)
             => getitem(scopes, RegionScope(last.args[1]), k)
                    = getitem(scopes, RegionScope(last.self), k)

\* C4 as stated: attaching a region below itself fails with a DefinitionError,
\* and no region is ever its own transitive ancestor.
C4_Original ==
    /\ (/\ last.op = "add_region"
        /\ \/ last.args[1] = last.self
           \/ last.self \in Descendants(last.args[1]))
       => last.err = "DefinitionError"
    /\ \A r \in RegionIds : r \notin Descendants(r)

\* C5 as stated: a region is a subregion of at most one parent, every listed
\* child's scope points to the scope of the parent listing it, and the pointer
\* is set when the child is attached.
C5_Original ==
    /\ \A c \in RegionIds : Cardinality({q \in RegionIds : c \in Children(q)}) <= 1
    /\ \A q \in RegionIds : \A c \in Children(q) :
          scopes[RegionScope(c)].parent = RegionScope(q)
    /\ (last.op = "add_region" /\ last.args[1] # last.self)
       => /\ last.args[1] \in Children(last.self)
          /\ scopes[RegionScope(last.args[1])].parent = RegionScope(last.self)

\* C6: add_endpoint (and the endpoint decorator) appends exactly one entry
\* to the end of the region's endpoints, leaving the earlier entries, the
\* other regions and every existing scope as they were; the entry carries
\* the given target and a new scope whose parent is the region's scope, on
\* which a key of the endpoint's config resolves to the endpoint's value and
\* any other key resolves as it does on the region's scope.
C6_AddEndpoint ==
    [][last'.op \in {"add_endpoint", "endpoint"} =>
        LET self == last'.self
            old == regions[self].endpoints
            new == regions'[self].endpoints
            attrs == last'.args[3]
            entry == new[Len(new)]
            sid == entry[Len(entry)]
        IN  /\ last'.err = "none"
            /\ Len(new) = Len(old) + 1
            /\ SubSeq(new, 1, Len(old)) = old
            /\ entry[Len(entry) - 1] = last'.args[2]
            /\ regions[self].cls = "UrlRegion" => entry[1] = last'.args[1]
            /\ \A r \in RegionIds \ {self} : regions'[r] = regions[r]
            /\ Len(regions') = Len(regions)
            /\ regions'[self].regions = regions[self].regions
            /\ regions'[self].region_attrs = regions[self].region_attrs
            /\ SubSeq(scopes', 1, Len(scopes)) = scopes
            /\ sid = Len(scopes) + 1
            /\ Len(scopes') = sid
            /\ scopes'[sid].parent = RegionScope(self)
            /\ \A k \in LookupKeys :
                  getitem(scopes', sid, k) =
                      IF k \in DOMAIN attrs THEN Return(attrs[k])
                      ELSE getitem(scopes, RegionScope(self), k)
    ]_vars

\* C6 witness: a second endpoint registered on a region that binds "a", with
\* its own "a": the endpoint's value shadows the region's and the reserved
\* keys come from the region.
C6_Witness ==
    /\ last.op = "add_endpoint"
    /\ last.err = "none"
    /\ Len(regions[last.self].endpoints) >= 2
    /\ "a" \in DOMAIN last.args[3]
    /\ "a" \in DOMAIN scopes[RegionScope(last.self)].data
    /\ LET e == regions[last.self].endpoints[Len(regions[last.self].endpoints)]
       IN  /\ getitem(scopes, e[Len(e)], "a") = Return(Atom("e"))
           /\ getitem(scopes, e[Len(e)], "before_request") = Return(List(<<>>))
           /\ getitem(scopes, RegionScope(last.self), "a") = Return(Atom("r"))

\* C7 as stated: add_exception_handler completes without error and appends
\* one handler, carrying the given type and callable, to the end of the
\* region's own exception_handlers list.
C7_Original ==
    last.op = "add_exception_handler"
    => /\ last.err = "none"
       /\ LET l == scopes[RegionScope(last.self)].data["exception_handlers"].items
          IN  /\ Len(l) >= 1
              /\ l[Len(l)].exc_type = last.args[1]
              /\ l[Len(l)].callable = Objects[last.args[2]]

\* C8 as stated: a region constructed without the reserved keys binds each of
\* them to an empty sequence, and every region's scope binds all three to
\* sequences.
C8_Original ==
    /\ (last.op = "__init__" /\ last.args \cap ReservedSet = {})
       => /\ last.err = "none"
          /\ \A k \in ReservedSet :
                /\ k \in DOMAIN scopes[RegionScope(last.self)].data
                /\ scopes[RegionScope(last.self)].data[k] = List(<<>>)
    /\ \A r \in RegionIds : \A k \in ReservedSet :
          /\ k \in DOMAIN scopes[RegionScope(r)].data
          /\ scopes[RegionScope(r)].data[k].t = "list"

\* C10 as stated: an endpoint registered on a UrlRegion without a methods
\* argument has the methods [GET] when looked up through its config scope.
C10_Original ==
    \A r \in UrlIds : \A i \in 1..Len(regions[r].endpoints) :
        "methods" \notin DOMAIN scopes[regions[r].endpoints[i][3]].data
        => getitem(scopes, regions[r].endpoints[i][3], "methods")
               = Return(List(<<"GET">>))

\* ------------------------------------------------------------ claims: bulk

\* What calling the single-item operation once per tuple, in order, leaves:
\* the tuple's trailing mapping, when there is one, is the item's config.
RECURSIVE OneByOneEndpoints(_, _, _)
OneByOneEndpoints(st, self, tuples) ==
    IF tuples = <<>> \/ st.exc # "none" THEN st
    ELSE LET t == Head(tuples)
             url == st.regions[self].cls = "UrlRegion"
             n == IF url THEN 2 ELSE 1
             cfg == IF Len(t) > n THEN t[n + 1] ELSE EmptyDict
         IN  OneByOneEndpoints(
                 IF url THEN UrlRegion_add_endpoint(st, self, t[1], t[2], cfg)
                 ELSE BaseRegion_add_endpoint(st, self, t[1], cfg),
                 self, Tail(tuples))

RECURSIVE OneByOneHandlers(_, _, _)
OneByOneHandlers(st, self, tuples) ==
    IF tuples = <<>> \/ st.exc # "none" THEN st
    ELSE LET t == Head(tuples)
             cfg == IF Len(t) > 2 THEN t[3] ELSE EmptyDict
         IN  OneByOneHandlers(
                 BaseRegion_add_exception_handler(st, self, t[1], t[2], cfg),
                 self, Tail(tuples))

RECURSIVE OneByOneRegions(_, _, _)
OneByOneRegions(st, self, tuples) ==
    IF tuples = <<>> \/ st.exc # "none" THEN st
    ELSE LET t == Head(tuples) IN
         OneByOneRegions(
             IF st.regions[self].cls = "UrlRegion"
             THEN UrlRegion_add_region(st, self, t[1],
                                       IF Len(t) > 1 THEN Atom(t[2]) ELSE NoVal)
             ELSE BaseRegion_add_region(st, self, t),
             self, Tail(tuples))

\* C9 as stated: each bulk registration leaves the state that the single-item
\* calls, one per tuple in order, leave (and raises if and only if they do).
C9_Original ==
    [][/\ last'.op = "add_endpoints" =>
            LET seq == OneByOneEndpoints(Done(scopes, regions), last'.self, last'.args)
            IN  /\ scopes' = seq.scopes
                /\ regions' = seq.regions
                /\ last'.err = seq.exc
       /\ last'.op = "add_exception_handlers" =>
            LET seq == OneByOneHandlers(Done(scopes, regions), last'.self, last'.args)
            IN  /\ scopes' = seq.scopes
                /\ regions' = seq.regions
                /\ last'.err = seq.exc
       /\ last'.op = "add_regions" =>
            LET seq == OneByOneRegions(Done(scopes, regions), last'.self, last'.args)
            IN  /\ scopes' = seq.scopes
                /\ regions' = seq.regions
                /\ last'.err = seq.exc
    ]_vars

\* ------------------------------------------- claims: handler comparison

\* C11 as stated: of two handlers of one region, one for a type T and one
\* for a strict subtype S of T, the handler ordering puts the handler for S
\* before the handler for T (so that S's handler is the one selected when an
\* S is raised): comparing S's handler with T's handler returns -1.
C11_Original ==
    (/\ last.op = "_cmp"
     /\ last.args[1].exc_type # last.args[2].exc_type
     /\ issubclass(last.args[1].exc_type, last.args[2].exc_type))
    => /\ last.err = "none"
       /\ last.ret = -1

\* C12 as stated: the comparison of exception types and of handlers is a
\* total order: it returns -1, 0 or 1, cmp(a, a) = 0, cmp(a, b) = -cmp(b, a),
\* and a before b and b before c gives a before c.
C12_Original ==
    /\ last.op = "exc_type_cmp"
       => LET a == last.args[1]
              b == last.args[2]
          IN  /\ last.ret \in {-1, 0, 1}
              /\ a = b => last.ret = 0
              /\ last.ret = -exc_type_cmp(b, a)
              /\ \A c \in ExcClasses :
                    (last.ret <= 0 /\ exc_type_cmp(b, c) <= 0)
                        => exc_type_cmp(a, c) <= 0
    /\ last.op = "_cmp"
       => /\ last.err = "none"
          /\ last.ret \in {-1, 0, 1}
          /\ last.args[1] = last.args[2] => last.ret = 0

\* ------------------------------------------------- claims: dispatchables

\* C20 as stated: building a Dispatchable or an ExceptionHandler from a
\* callable that has a parameter without a declared type fails with
\* EndpointDefinitionError.
C20_Original ==
    /\ (last.op = "from_signature"
        /\ \E i \in 1..Len(Objects[last.args[1]].annotated) :
              ~Objects[last.args[1]].annotated[i])
       => last.err = "EndpointDefinitionError"
    /\ (last.op = "ExceptionHandler"
        /\ \E i \in 1..Len(Objects[last.args[2]].annotated) :
              ~Objects[last.args[2]].annotated[i])
       => last.err = "EndpointDefinitionError"

\* ------------------------------------------------------- claims: router

\* The registrations asked of the router that match a path, in the order
\* they were made, and those of them that allow a method.
AskedOnPath(path) == SelectSeq(router.asked, LAMBDA r : r.url_rule = path)
AskedHits(method, path) ==
    SelectSeq(AskedOnPath(path), LAMBDA r : method \in r.endpoint.methods)

\* C14 as stated: every registration yields a rule of the router (the same
\* route registered twice yields two), and a resolution returns the endpoint
\* of the first-registered rule that matches the path and allows the method.
C14_Original ==
    /\ Len(router.rules) = Len(router.asked)
    /\ last.op = "resolve"
       => LET hits == AskedHits(last.args[1], last.args[2]) IN
          Len(hits) > 0
             => /\ last.ret.outcome = "found"
                /\ last.ret.endpoint = {hits[1].endpoint}

\* C15 as stated: a resolution concludes not-found only when no registered
\* rule matches the path; when registered rules match the path and none of
\* them allows the method it concludes method-not-allowed, carrying the union
\* of the method sets of the rules that matched the path.
C15_Original ==
    last.op = "resolve"
    => LET onPath == AskedOnPath(last.args[2])
           hits == AskedHits(last.args[1], last.args[2])
       IN  /\ last.ret.outcome = "not_found" => Len(onPath) = 0
           /\ (Len(onPath) > 0 /\ Len(hits) = 0)
              => /\ last.ret.outcome = "method_not_allowed"
                 /\ last.ret.allowed =
                       UNION {onPath[i].endpoint.methods : i \in 1..Len(onPath)}

\* ------------------------------------------------------ claims: context

\* The handlers of scope s's own exception_handlers list that match an
\* exception of class exc: those registered for exc's class or a superclass.
LocalMatches(s, exc) ==
    IF "exception_handlers" \in DOMAIN scopes[s].data
    THEN SelectSeq(scopes[s].data["exception_handlers"].items,
                   LAMBDA h : issubclass(exc, h.exc_type))
    ELSE <<>>

\* The scope levels from s outward that hold a matching handler.
MatchingLevels(s, exc) ==
    SelectSeq(Chain(scopes, s), LAMBDA x : Len(LocalMatches(x, exc)) > 0)

\* A response, and what produced it: a handler's callable or a status code.
IsResponse(v) == v.t = "response"

\* C13 as stated: for an exception raised in the block, the handler is taken
\* from the first scope level, going from the raising (endpoint-owning) scope
\* outward, that holds any matching handler: the context's response is the
\* one produced by a matching handler of that level.
C13_Original ==
    (/\ last.op = "__exit__"
     /\ last.args[1] # "none"
     /\ Len(MatchingLevels(last.args[2], last.args[1])) > 0)
    => LET level == MatchingLevels(last.args[2], last.args[1])[1]
           m == LocalMatches(level, last.args[1])
       IN  /\ IsResponse(ctx.response)
           /\ \E i \in 1..Len(m) : ctx.response.items = <<m[i].callable>>

C17_Original == ctx.pc = "exited" => ctx.state = CONTEXT_CLEANED

\* C18: an exception raised inside the block, of whatever class, does not
\* leave the with statement: __exit__ returns a true value for it.
C18_NoPropagation ==
    (last.op = "__exit__" /\ last.args[1] # "none")
    => /\ last.err = "none"
       /\ last.ret = Atom("True")
       /\ ctx.pc = "exited"

\* A block left by an exception that is no Exception subclass.
C18_Witness ==
    /\ last.op = "__exit__"
    /\ last.args[1] = "KeyboardInterrupt"
    /\ ~issubclass(last.args[1], "Exception")

\* C19 as stated: when the block raised an exception that no registered
\* handler matches, the context's exception field holds the error and its
\* response is a 500-class response.
C19_Original ==
    (/\ last.op = "__exit__"
     /\ last.args[1] # "none"
     /\ Len(MatchingLevels(last.args[2], last.args[1])) = 0)
    => /\ ctx.exception = last.args[1]
       /\ IsResponse(ctx.response)
       /\ ctx.response.items \in {<<code>> : code \in 500..599}

\* --------------------------------------- claims: AttributeScope, continued

\* The keys bound anywhere on s's chain.
ChainKeys(H, s) ==
    UNION {DOMAIN H[Chain(H, s)[i]].data : i \in 1..Len(Chain(H, s))}

\* C23: enumerating a scope gives the flattened view of its chain: as many
\* keys as there are distinct keys bound on the chain, each of them exactly
\* once, and each with the value scope[k] (the closest binding).
C23_Enumeration ==
    /\ last.op = "__iter__"
       => LET rd == last.ret
              K == ChainKeys(scopes, last.self)
          IN  /\ Len(rd.keys) = Cardinality(K)
              /\ {rd.keys[i] : i \in 1..Len(rd.keys)} = K
              /\ \A i, j \in 1..Len(rd.keys) : rd.keys[i] = rd.keys[j] => i = j
              /\ \A k \in K : getitem(scopes, last.self, k) = Return(rd.vals[k])
    /\ last.op = "__len__"
       => last.ret = Cardinality(ChainKeys(scopes, last.self))

\* A scope enumerated that shadows one key of an ancestor and inherits
\* another.
C23_Witness ==
    /\ last.op = "__iter__"
    /\ scopes[last.self].parent # None
    /\ \E k \in DOMAIN scopes[last.self].data :
          Len(Binders(scopes, last.self, k)) > 1
    /\ \E k \in ChainKeys(scopes, last.self) : k \notin DOMAIN scopes[last.self].data

\* C24: a lookup of a key that no scope of the chain binds fails with
\* KeyError, returns no value, and changes no scope.
C24_MissingKey ==
    [][(/\ last'.op = "__getitem__"
        /\ Len(Binders(scopes, last'.self, last'.args)) = 0)
       => /\ last'.err = "KeyError"
          /\ last'.ret = NoVal
          /\ scopes' = scopes]_vars

\* A failed lookup that went through an ancestor up to the root.
C24_Witness ==
    /\ last.op = "__getitem__"
    /\ Len(Chain(scopes, last.self)) > 1
    /\ Len(Binders(scopes, last.self, last.args)) = 0
    /\ last.err = "KeyError"

\* C26 as stated: scope.all(k) has exactly one entry per scope of the chain
\* that binds k locally, from the scope up to the root: the values those
\* scopes bind, and nothing for a scope that does not bind k.
C26_Original ==
    last.op = "all"
    => LET b == Binders(scopes, last.self, last.args) IN
       last.ret.items = [i \in 1..Len(b) |-> scopes[b[i]].data[last.args]]

\* ------------------------------------------------- claims: util, continued

\* C27 as stated: for two exception types of which neither is a subtype of
\* the other, the comparison puts the deeper one (the longer __mro__) first,
\* and with equal depths the one whose name is lexicographically smaller.
C27_Original ==
    (/\ last.op = "exc_type_cmp"
     /\ ~issubclass(last.args[1], last.args[2])
     /\ ~issubclass(last.args[2], last.args[1]))
    => LET d1 == Len(mro(last.args[1]))
           d2 == Len(mro(last.args[2]))
       IN  /\ d1 > d2 => last.ret = -1
           /\ d1 < d2 => last.ret = 1
           /\ d1 = d2 => last.ret = IF NameRank(last.args[1]) < NameRank(last.args[2])
                                    THEN -1 ELSE 1

\* C28 as stated: the DispatchParam built for a parameter holds the declared
\* default when one is declared, None included, and _MISSING when none is
\* declared; from a signature and through the dispatchable decorator.
C28_Original ==
    /\ (last.op = "DispatchParam.from_signature" /\ last.err = "none")
       => last.ret = Atom(IF last.args[1].default = "empty" THEN "_MISSING"
                          ELSE last.args[1].default)
    /\ last.op = "dispatchable"
       => last.ret = IF Len(last.args[1]) = 0 THEN Atom("_MISSING")
                     ELSE Atom(last.args[1][1])

\* C29 as stated: calling a Dispatchable with positional arguments a and
\* keyword arguments k calls the wrapped callable once, with the positional
\* arguments a and the keyword arguments k, and returns its result.
C29_Original ==
    last.op = "__call__"
    => LET a == last.args[1]
           k == last.args[2]
           got == last.ret.calls
       IN  /\ Len(got) = 1
           /\ last.ret.result = Atom("r")
           /\ Len(got[1].pos) = Len(a)
           /\ \A i \in 1..Len(a) : got[1].pos[i].t = a[i].t
           /\ \A i \in 1..Len(a) : got[1].pos[i].items = a[i].items
           /\ DOMAIN got[1].kw = DOMAIN k
           /\ \A x \in DOMAIN k : got[1].kw[x] = k[x]

\* The names, among those loaded, that are all-uppercase.
AllUppercase == {"HELLO", "A_1", "KEEP"}

\* C25: a configuration created from a dict or an object and defaults holds
\* every all-uppercase entry of the source with the source's value, holds no
\* other entry of the source, and holds every default that no loaded entry
\* overrides with the default's value.
C25_ConfigLoading ==
    last.op = "Config.create"
    => LET obj == last.args[2]
           defaults == last.args[3]
           data == last.ret
           loaded == DOMAIN obj \cap AllUppercase
       IN  /\ DOMAIN data = loaded \cup DOMAIN defaults
           /\ \A k \in loaded : data[k] = obj[k]
           /\ \A k \in DOMAIN defaults \ loaded : data[k] = defaults[k]

\* A load that overrides one default, leaves another, and meets entries that
\* are not all-uppercase.
C25_Witness ==
    /\ last.op = "Config.create"
    /\ {"HELLO", "hello", "Mixed"} \subseteq DOMAIN last.args[2]
    /\ {"HELLO", "KEEP"} \subseteq DOMAIN last.args[3]
    /\ last.ret["HELLO"] = Atom("o")
    /\ last.ret["KEEP"] = Atom("d")

\* -------------------------------------------------- claims: exceptions.py

\* C21: every kind of the HTTP catalog can be constructed and then has the
\* one documented status code, a code in 300..505; a 3xx kind constructed
\* with a location has that location as its Location header; a 4xx or 5xx
\* kind has no Location header unless the caller supplied headers.
C21_Original ==
    last.op \in CatalogKinds
    => LET kind == last.op
           location == last.args[1]
           kwargs == last.args[2]
           e == last.ret
       IN  /\ last.err = "none"
           /\ e.status_code = Documented[kind]
           /\ e.status_code \in 300..505
           /\ kind \in TakesLocation
              => /\ e.headers.t = "dict"
                 /\ "Location" \in DOMAIN e.headers.items
                 /\ e.headers.items["Location"] = location
           /\ (kind \notin Redirections /\ "headers" \notin DOMAIN kwargs)
              => e.headers.t = "none"

\* C22: a MethodNotAllowedError constructed with the methods M has status
\* 405 and M under data['allowed_methods']; constructed with a data dict it
\* keeps that dict's other entries; constructed without data its data is a
\* dict that did not exist before the call, so it is the data of no other
\* error.
C22_MethodNotAllowed ==
    [][last'.op = "MethodNotAllowedError"
       => LET M == last'.args[1]
              data == last'.args[2]
              e == http'.errors[Len(http'.errors)]
              d == http'.dicts[e.data]
          IN  /\ Len(http'.errors) = Len(http.errors) + 1
              /\ e.status_code = 405
              /\ "allowed_methods" \in DOMAIN d
              /\ d["allowed_methods"] = List(M)
              /\ data # None
                 => /\ e.data = data
                    /\ DOMAIN d = DOMAIN http.dicts[data] \cup {"allowed_methods"}
                    /\ \A k \in DOMAIN http.dicts[data] \ {"allowed_methods"} :
                          d[k] = http.dicts[data][k]
              /\ data = None
                 => /\ e.data \notin 1..Len(http.dicts)
                    /\ DOMAIN d = {"allowed_methods"}
                    /\ \A i \in 1..Len(http.errors) :
                          http'.errors[i].data # e.data]_vars

\* Two errors constructed without data, with different methods, and each
\* with its own data dict.
C22_Witness ==
    /\ Len(http.errors) = 2
    /\ last.op = "MethodNotAllowedError"
    /\ last.args[2] = None
    /\ http.errors[1].data \in http.own
    /\ http.errors[2].data \in http.own
    /\ http.errors[1].data # http.errors[2].data
    /\ http.dicts[http.errors[1].data]["allowed_methods"]
       # http.dicts[http.errors[2].data]["allowed_methods"]

\* An error constructed with the caller's dict {'x': 1}: the dict's entry is
\* kept beside the methods.
C22_WitnessData ==
    /\ last.op = "MethodNotAllowedError"
    /\ last.args[2] # None
    /\ DOMAIN http.dicts[last.args[2]] = {"x", "allowed_methods"}

====
